---- MODULE Spec2Model ----
(***************************************************************************)
(* The flashing workflow of the Arduino installer GUI (src/src/main.rs).   *)
(*                                                                         *)
(* The program state is the struct ArduinoInstallerGui.  Each user intent  *)
(* (a clicked widget inside ArduinoInstallerGui::update) is one atomic     *)
(* action.  The environment is the operating system: what                  *)
(* serialport::available_ports() would return now (os_scan), what the file *)
(* dialog returns, and how launching avrdude ends.                         *)
(*                                                                         *)
(* Option<T> is modelled as a sequence of length 0 (None) or 1 (Some).     *)
(* Strings are TLA+ strings; format!() is string concatenation.            *)
(***************************************************************************)
EXTENDS Integers, Sequences, FiniteSets, TLC

(* ------------------------------ bounds -------------------------------- *)

\* How many serial ports the machine can have attached.
NumPorts == 2

\* How many firmware files the file dialog can return.
NumFiles == 2

(* --------------------------- input domains ---------------------------- *)

None == <<>>

Some(x) == <<x>>

\* SerialPortInfo values the OS may report (port_name, port_type).
PortTable ==
  << [port_name |-> "/dev/ttyACM0", port_type |-> "UsbPort"],
     [port_name |-> "/dev/ttyUSB0", port_type |-> "UsbPort"],
     [port_name |-> "/dev/ttyS0",   port_type |-> "Unknown"],
     [port_name |-> "/dev/rfcomm0", port_type |-> "BluetoothPort"] >>

Ports == { PortTable[i] : i \in 1..NumPorts }

\* Paths the file dialog may return.
FileTable ==
  << "/tmp/firmware.elf", "/tmp/blink.elf", "/home/user/build/main.elf",
     "/opt/fw/boot.elf" >>

Paths == { FileTable[i] : i \in 1..NumFiles }

\* The lists the OS can report: no port twice, in the OS's enumeration order
\* (the order of PortTable).
PortLists ==
  { l \in UNION { [1..n -> Ports] : n \in 0..NumPorts } :
      \A i, j \in 1..Len(l) :
        i < j => \E a, b \in 1..NumPorts :
                   a < b /\ l[i] = PortTable[a] /\ l[j] = PortTable[b] }

\* Display texts of a serialport::Error (the description may be empty).
ScanErrors == { "", "Permission denied" }

\* Result<Vec<SerialPortInfo>, serialport::Error> of available_ports().
ScanResults ==
  { [ok |-> TRUE, ports |-> l, err |-> ""] : l \in PortLists }
    \cup { [ok |-> FALSE, ports |-> <<>>, err |-> e] : e \in ScanErrors }

\* The bytes avrdude wrote to stdout: valid UTF-8 with its text, or invalid
\* UTF-8 with the Debug text of the FromUtf8Error that decoding yields.
Stdouts ==
  { [utf8 |-> TRUE,  text |-> "", dbg |-> ""],
    [utf8 |-> TRUE,  text |-> "avrdude done.", dbg |-> ""],
    [utf8 |-> FALSE, text |-> "",
     dbg |-> "FromUtf8Error { bytes: [255], error: Utf8Error { valid_up_to: 0, error_len: Some(1) } }"] }

Stderrs == { "", "avrdude: ser_open(): can't open device" }

ExitCodes == { 0, 1 }

\* io::Result<Output> of Command::output(): the process ran to its end
\* (launched) with an exit code, stdout and stderr, or could not be started.
ExecResults ==
  { [launched |-> TRUE, code |-> c, stdout |-> o, stderr |-> e, cause |-> ""] :
      c \in ExitCodes, o \in Stdouts, e \in Stderrs }
    \cup { [launched |-> FALSE, code |-> 0,
            stdout |-> [utf8 |-> TRUE, text |-> "", dbg |-> ""], stderr |-> "",
            cause |-> "Os { code: 2, kind: NotFound, message: \"No such file or directory\" }"] }

(* ------------------------------ boards -------------------------------- *)

\* enum ArduinoBoard
ArduinoBoard == { "ArduinoUno" }

\* spec with the part number of the board left empty.
spec_NoPartno(board) ==
  CASE board = "ArduinoUno" ->
    [programmer |-> "arduino", partno |-> "", do_chip_erase |-> TRUE]

\* ArduinoBoard::spec
spec(board) ==
  CASE board = "ArduinoUno" ->
    [programmer |-> "arduino", partno |-> "atmega328p", do_chip_erase |-> TRUE]

\* struct BoardSpec: every value the type admits within the sample names.
BoardSpec ==
  [programmer : {"arduino", "stk500v1"},
   partno : {"atmega328p", "atmega2560"},
   do_chip_erase : BOOLEAN]

(* ----------------------------- rendering ------------------------------ *)

\* {:?} of a string without characters that need escaping.
Quote(s) == "\"" \o s \o "\""

RECURSIVE JoinQuoted(_)
\* {:?} of the arguments of a Command: each quoted, separated by a blank.
JoinQuoted(args) ==
  IF args = <<>> THEN ""
  ELSE " " \o Quote(Head(args)) \o JoinQuoted(Tail(args))

\* avrdudeArgs with the erase flag added before the write operation.
avrdudeArgs_EraseEarly(s, port, program_to_flash) ==
  LET head == << "-c", s.programmer, "-p", s.partno, "-P", port.port_name >>
      tail == << "-D", "-U", "flash:w:" \o program_to_flash >>
  IN IF s.do_chip_erase THEN head \o << "-e" >> \o tail ELSE head \o tail

\* The argument vector avrdude() gives the Command, in the order of its
\* .arg() calls.
avrdudeArgs(s, port, program_to_flash) ==
  LET base == << "-c", s.programmer, "-p", s.partno, "-P", port.port_name,
                 "-D", "-U", "flash:w:" \o program_to_flash >>
  IN IF s.do_chip_erase THEN Append(base, "-e") ELSE base

\* format!("CMD: {:?}", cmd)
usedCommand(args) == "CMD: " \o Quote("avrdude") \o JoinQuoted(args)

\* mappedResultDebug with a non-zero exit code reported as a failed launch.
mappedResultDebug_ExitStatus(res) ==
  IF res.launched /\ res.code = 0
  THEN IF res.stdout.utf8
       THEN "Ok(Ok(" \o Quote(res.stdout.text) \o "))"
       ELSE "Ok(Err(" \o res.stdout.dbg \o "))"
  ELSE "Err(" \o res.cause \o ")"

\* {:?} of res.map(|out| String::from_utf8(out.stdout))
mappedResultDebug(res) ==
  IF res.launched
  THEN IF res.stdout.utf8
       THEN "Ok(Ok(" \o Quote(res.stdout.text) \o "))"
       ELSE "Ok(Err(" \o res.stdout.dbg \o "))"
  ELSE "Err(" \o res.cause \o ")"

\* format!("Flashing: {:?}", ...)
flashOutput(res) == "Flashing: " \o mappedResultDebug(res)

(* ------------------------------- state -------------------------------- *)

VARIABLES
  file_path,        \* Option<PathBuf>
  selected_board,   \* ArduinoBoard
  selected_port,    \* Option<SerialPortInfo>
  available_ports,  \* Vec<SerialPortInfo>
  port_scan_error,  \* Option<String>
  general_error,    \* Option<Cow<str>>
  output,           \* Option<String>
  used_command,     \* Option<String>
  os_scan,          \* environment: what available_ports() returns now
  intent,           \* the intent handled by the last step
  scanned,          \* the scan results the last step read from the OS
  picked,           \* the file dialog results the last step read
  spawned           \* the processes the last step launched

gui == << file_path, selected_board, selected_port, available_ports,
          port_scan_error, general_error, output, used_command >>

vars == << file_path, selected_board, selected_port, available_ports,
           port_scan_error, general_error, output, used_command,
           os_scan, intent, scanned, picked, spawned >>

\* portscan: the two fields it writes, from the result of the enumeration.
portscan(res) ==
  IF res.ok
  THEN [available_ports |-> res.ports, port_scan_error |-> None]
  ELSE [available_ports |-> <<>>,
        port_scan_error |-> Some("ERROR: " \o res.err)]

\* ArduinoInstallerGui::new: the default state, then one portscan.
Init ==
  /\ os_scan \in ScanResults
  /\ file_path = None
  /\ selected_board = "ArduinoUno"
  /\ selected_port = None
  /\ available_ports = portscan(os_scan).available_ports
  /\ port_scan_error = portscan(os_scan).port_scan_error
  /\ general_error = None
  /\ output = None
  /\ used_command = None
  /\ intent = "Start"
  /\ scanned = << os_scan >>
  /\ picked = << >>
  /\ spawned = << >>

(* ------------------------------ intents ------------------------------- *)

\* SelectFile keeping the selected file when the dialog is cancelled.
SelectFile_KeepsOnCancel ==
  /\ \E file \in { None } \cup { Some(p) : p \in Paths } :
       /\ file_path' = IF file = None THEN file_path ELSE file
       /\ picked' = << file >>
  /\ intent' = "SelectFile"
  /\ scanned' = << >>
  /\ spawned' = << >>
  /\ UNCHANGED << selected_board, selected_port, available_ports,
                  port_scan_error, general_error, output, used_command,
                  os_scan >>

\* SelectFile refreshing the port list after the dialog closes.
SelectFile_Rescans ==
  /\ \E file \in { None } \cup { Some(p) : p \in Paths } :
       /\ file_path' = file
       /\ picked' = << file >>
  /\ available_ports' = portscan(os_scan).available_ports
  /\ port_scan_error' = portscan(os_scan).port_scan_error
  /\ intent' = "SelectFile"
  /\ scanned' = << os_scan >>
  /\ spawned' = << >>
  /\ UNCHANGED << selected_board, selected_port, general_error, output,
                  used_command, os_scan >>

\* "Choose a file": the dialog's result, None when cancelled, is assigned.
SelectFile ==
  /\ \E file \in { None } \cup { Some(p) : p \in Paths } :
       /\ file_path' = file
       /\ picked' = << file >>
  /\ intent' = "SelectFile"
  /\ scanned' = << >>
  /\ spawned' = << >>
  /\ UNCHANGED << selected_board, selected_port, available_ports,
                  port_scan_error, general_error, output, used_command,
                  os_scan >>

\* The "Boards" combo box: one selectable value per board.
SelectBoard ==
  /\ \E b \in ArduinoBoard : selected_board' = b
  /\ intent' = "SelectBoard"
  /\ scanned' = << >>
  /\ picked' = << >>
  /\ spawned' = << >>
  /\ UNCHANGED << file_path, selected_port, available_ports, port_scan_error,
                  general_error, output, used_command, os_scan >>

\* SelectPort with an extra entry of the combo box that selects no port.
SelectPort_Deselectable ==
  /\ \/ \E i \in 1..Len(available_ports) :
          selected_port' = Some(available_ports[i])
     \/ selected_port' = None
  /\ intent' = "SelectPort"
  /\ scanned' = << >>
  /\ picked' = << >>
  /\ spawned' = << >>
  /\ UNCHANGED << file_path, selected_board, available_ports, port_scan_error,
                  general_error, output, used_command, os_scan >>

\* The "Ports" combo box: one selectable value per listed port.
SelectPort ==
  /\ \E i \in 1..Len(available_ports) :
       selected_port' = Some(available_ports[i])
  /\ intent' = "SelectPort"
  /\ scanned' = << >>
  /\ picked' = << >>
  /\ spawned' = << >>
  /\ UNCHANGED << file_path, selected_board, available_ports, port_scan_error,
                  general_error, output, used_command, os_scan >>

\* Rescan with a failed scan leaving the port list as it was.
Rescan_KeepsListOnError ==
  /\ available_ports' = IF os_scan.ok THEN portscan(os_scan).available_ports
                        ELSE available_ports
  /\ port_scan_error' = portscan(os_scan).port_scan_error
  /\ intent' = "Rescan"
  /\ scanned' = << os_scan >>
  /\ picked' = << >>
  /\ spawned' = << >>
  /\ UNCHANGED << file_path, selected_board, selected_port, general_error,
                  output, used_command, os_scan >>

\* Rescan extending the port list with the scanned ports instead of
\* replacing it.
Rescan_Appends ==
  /\ available_ports' = available_ports \o portscan(os_scan).available_ports
  /\ port_scan_error' = portscan(os_scan).port_scan_error
  /\ intent' = "Rescan"
  /\ scanned' = << os_scan >>
  /\ picked' = << >>
  /\ spawned' = << >>
  /\ UNCHANGED << file_path, selected_board, selected_port, general_error,
                  output, used_command, os_scan >>

\* Rescan with a successful scan leaving the discovery error as it was.
Rescan_KeepsError ==
  /\ available_ports' = portscan(os_scan).available_ports
  /\ port_scan_error' = IF os_scan.ok THEN port_scan_error
                        ELSE portscan(os_scan).port_scan_error
  /\ intent' = "Rescan"
  /\ scanned' = << os_scan >>
  /\ picked' = << >>
  /\ spawned' = << >>
  /\ UNCHANGED << file_path, selected_board, selected_port, general_error,
                  output, used_command, os_scan >>

\* Rescan with a failed scan also dropping the selected port.
Rescan_DropsSelection ==
  /\ available_ports' = portscan(os_scan).available_ports
  /\ port_scan_error' = portscan(os_scan).port_scan_error
  /\ selected_port' = IF os_scan.ok THEN selected_port ELSE None
  /\ intent' = "Rescan"
  /\ scanned' = << os_scan >>
  /\ picked' = << >>
  /\ spawned' = << >>
  /\ UNCHANGED << file_path, selected_board, general_error, output,
                  used_command, os_scan >>

\* "Rescan": portscan on the two fields.
Rescan ==
  /\ available_ports' = portscan(os_scan).available_ports
  /\ port_scan_error' = portscan(os_scan).port_scan_error
  /\ intent' = "Rescan"
  /\ scanned' = << os_scan >>
  /\ picked' = << >>
  /\ spawned' = << >>
  /\ UNCHANGED << file_path, selected_board, selected_port, general_error,
                  output, used_command, os_scan >>

\* flashArm treating a selected port that is not in the port list as no port.
flashArm_StalePortRefused(file, port) ==
  IF /\ file # None
     /\ port # None
     /\ \E i \in 1..Len(available_ports) : available_ports[i] = port[1]
  THEN "run"
  ELSE IF file = None THEN "Error: no file selected"
  ELSE "Error: No port selected"

\* flashArm with the missing port tested before the missing file.
flashArm_PortFirst(file, port) ==
  IF file # None /\ port # None THEN "run"
  ELSE IF port = None THEN "Error: No port selected"
  ELSE "Error: no file selected"

\* The arm of the match on (file_path, selected_port) that "Flash device!"
\* takes.
flashArm(file, port) ==
  IF file # None /\ port # None THEN "run"
  ELSE IF file = None THEN "Error: no file selected"
  ELSE "Error: No port selected"

\* FlashRun storing the command rendering only when the tool was started.
FlashRun_CommandOnSuccess(res) ==
  LET args == avrdudeArgs(spec(selected_board), selected_port[1], file_path[1])
  IN /\ output' = Some(flashOutput(res))
     /\ used_command' = IF res.launched THEN Some(usedCommand(args))
                        ELSE used_command
     /\ spawned' = << [spec |-> spec(selected_board), port |-> selected_port[1],
                       path |-> file_path[1], argv |-> args, result |-> res] >>
     /\ UNCHANGED << file_path, selected_board, selected_port,
                     available_ports, port_scan_error, general_error,
                     os_scan >>

\* FlashRun reusing the command rendering of an earlier attempt.
FlashRun_CachesCommand(res) ==
  LET args == avrdudeArgs(spec(selected_board), selected_port[1], file_path[1])
  IN /\ output' = Some(flashOutput(res))
     /\ used_command' = IF used_command = None THEN Some(usedCommand(args))
                        ELSE used_command
     /\ spawned' = << [spec |-> spec(selected_board), port |-> selected_port[1],
                       path |-> file_path[1], argv |-> args, result |-> res] >>
     /\ UNCHANGED << file_path, selected_board, selected_port,
                     available_ports, port_scan_error, general_error,
                     os_scan >>

\* FlashRun launching the tool a second time when the first launch failed.
FlashRun_Retries(res) ==
  LET args == avrdudeArgs(spec(selected_board), selected_port[1], file_path[1])
      run == [spec |-> spec(selected_board), port |-> selected_port[1],
              path |-> file_path[1], argv |-> args, result |-> res]
  IN /\ output' = Some(flashOutput(res))
     /\ used_command' = Some(usedCommand(args))
     /\ spawned' = IF res.launched THEN << run >> ELSE << run, run >>
     /\ UNCHANGED << file_path, selected_board, selected_port,
                     available_ports, port_scan_error, general_error,
                     os_scan >>

\* FlashRun writing the display fields only while they are still empty.
FlashRun_KeepsFirst(res) ==
  LET args == avrdudeArgs(spec(selected_board), selected_port[1], file_path[1])
  IN /\ output' = IF output = None THEN Some(flashOutput(res)) ELSE output
     /\ used_command' = IF used_command = None THEN Some(usedCommand(args))
                        ELSE used_command
     /\ spawned' = << [spec |-> spec(selected_board), port |-> selected_port[1],
                       path |-> file_path[1], argv |-> args, result |-> res] >>
     /\ UNCHANGED << file_path, selected_board, selected_port,
                     available_ports, port_scan_error, general_error,
                     os_scan >>

\* The first arm: avrdude() builds and runs the command, then the two
\* display fields are written.
FlashRun(res) ==
  LET args == avrdudeArgs(spec(selected_board), selected_port[1], file_path[1])
  IN /\ output' = Some(flashOutput(res))
     /\ used_command' = Some(usedCommand(args))
     /\ spawned' = << [spec |-> spec(selected_board), port |-> selected_port[1],
                       path |-> file_path[1], argv |-> args, result |-> res] >>
     /\ UNCHANGED << file_path, selected_board, selected_port,
                     available_ports, port_scan_error, general_error,
                     os_scan >>

\* FlashRefuse also emptying the two display fields.
FlashRefuse_ResetsDisplay(msg) ==
  /\ general_error' = Some(msg)
  /\ output' = None
  /\ used_command' = None
  /\ spawned' = << >>
  /\ UNCHANGED << file_path, selected_board, selected_port, available_ports,
                  port_scan_error, os_scan >>

\* The other two arms: only the general error is written.
FlashRefuse(msg) ==
  /\ general_error' = Some(msg)
  /\ spawned' = << >>
  /\ UNCHANGED << file_path, selected_board, selected_port, available_ports,
                  port_scan_error, output, used_command, os_scan >>

\* "Flash device!"
Flash ==
  /\ intent' = "Flash"
  /\ scanned' = << >>
  /\ picked' = << >>
  /\ IF flashArm(file_path, selected_port) = "run"
     THEN \E res \in ExecResults : FlashRun(res)
     ELSE FlashRefuse(flashArm(file_path, selected_port))

\* The environment: ports are attached or removed, enumeration starts or
\* stops failing.
OsChange ==
  /\ os_scan' \in ScanResults \ { os_scan }
  /\ intent' = "OsChange"
  /\ scanned' = << >>
  /\ picked' = << >>
  /\ spawned' = << >>
  /\ UNCHANGED gui

Next ==
  \/ SelectFile
  \/ SelectBoard
  \/ SelectPort
  \/ Rescan
  \/ Flash
  \/ OsChange

Spec == Init /\ [][Next]_vars

\* avrdude() called on its own with any BoardSpec, port and file: the
\* command it builds and the result of running it.
AvrdudeCall ==
  /\ \E s \in BoardSpec, port \in Ports, path \in Paths, res \in ExecResults :
       spawned' = << [spec |-> s, port |-> port, path |-> path,
                      argv |-> avrdudeArgs(s, port, path), result |-> res] >>
  /\ intent' = "avrdude"
  /\ scanned' = << >>
  /\ picked' = << >>
  /\ UNCHANGED << gui, os_scan >>

SpecBuild == Init /\ [][AvrdudeCall]_vars

(* ------------------------------ claims -------------------------------- *)

NoFileSelected == "Error: no file selected"

NoPortSelected == "Error: No port selected"

\* Whether port p is an element of list l.
Listed(p, l) == \E i \in 1..Len(l) : l[i] = p

\* C1: a Flash with no file selected sets the general error to the "no file
\* selected" message whether or not a port is selected; with a file and no
\* port it sets it to the "no port selected" message; and it builds and
\* executes a command if and only if both a file and a port are selected.
C1_FlashPrecedence ==
  [][ intent' = "Flash" =>
        /\ (file_path = None => general_error' = Some(NoFileSelected))
        /\ (file_path # None /\ selected_port = None
              => general_error' = Some(NoPortSelected))
        /\ (Len(spawned') = 1 <=> (file_path # None /\ selected_port # None))
        /\ Len(spawned') <= 1 ]_vars

\* A Flash handled with a port but no file selected has reported the file.
C1_Witness ==
  /\ intent = "Flash"
  /\ file_path = None
  /\ selected_port # None
  /\ general_error = Some(NoFileSelected)
  /\ spawned = << >>

\* C2: after a Flash handled with both a file and a port selected, the
\* general error is empty.
C2_GeneralErrorCleared ==
  intent = "Flash" /\ spawned # << >> => general_error = None

\* C3: a Flash handled while the file or the port is missing changes only the
\* general error; no command is executed; command and outcome fields that
\* were empty are still empty.
C3_RefusedFlashFrame ==
  [][ intent' = "Flash" /\ (file_path = None \/ selected_port = None) =>
        /\ UNCHANGED << file_path, selected_board, selected_port,
                        available_ports, port_scan_error, used_command,
                        output >>
        /\ spawned' = << >>
        /\ (used_command = None /\ output = None
              => used_command' = None /\ output' = None) ]_vars

\* A refused Flash after an earlier one that ran: the display fields of the
\* earlier one are still there.
C3_Witness ==
  /\ intent = "Flash"
  /\ spawned = << >>
  /\ file_path = None
  /\ general_error = Some(NoFileSelected)
  /\ used_command # None
  /\ output # None

\* C4 as stated: after any Flash intent, the command and outcome renderings
\* held in the state are those produced by that attempt, never those of an
\* earlier one.
C4_EveryFlashOverwrites ==
  intent = "Flash" /\ (used_command # None \/ output # None) =>
    /\ Len(spawned) = 1
    /\ used_command = Some(usedCommand(spawned[1].argv))
    /\ output = Some(flashOutput(spawned[1].result))

\* C4 amended: a Flash handled with both a file and a port selected
\* overwrites the command and outcome renderings with those of that attempt;
\* a Flash refused for a missing selection leaves both as they were.
C4_RunningFlashOverwrites ==
  [][ intent' = "Flash" =>
        IF file_path # None /\ selected_port # None
        THEN /\ Len(spawned') = 1
             /\ used_command' = Some(usedCommand(spawned'[1].argv))
             /\ output' = Some(flashOutput(spawned'[1].result))
        ELSE UNCHANGED << used_command, output >> ]_vars

\* A Flash that ran a command in a session with an earlier Flash attempt
\* (the one that left the general error).
C4_Witness ==
  /\ intent = "Flash"
  /\ Len(spawned) = 1
  /\ general_error # None
  /\ used_command = Some(usedCommand(spawned[1].argv))
  /\ output = Some(flashOutput(spawned[1].result))

\* C5: a Rescan whose enumeration succeeds replaces the port list with
\* exactly the OS-reported list and clears the discovery error; one whose
\* enumeration fails empties the port list and sets a non-empty discovery
\* error.
C5_RescanOutcome ==
  intent = "Rescan" =>
    /\ Len(scanned) = 1
    /\ scanned[1].ok =>
         /\ available_ports = scanned[1].ports
         /\ Len(available_ports) = Len(scanned[1].ports)
         /\ port_scan_error = None
    /\ ~scanned[1].ok =>
         /\ available_ports = << >>
         /\ port_scan_error # None
         /\ Len(port_scan_error[1]) > 0

\* A failed Rescan.
C5_Witness ==
  /\ intent = "Rescan"
  /\ ~scanned[1].ok
  /\ available_ports = << >>
  /\ port_scan_error # None

\* C6: a Rescan, whether it succeeds or fails, changes only the port list and
\* the discovery error.
C6_RescanFrame ==
  [][ intent' = "Rescan" =>
        UNCHANGED << file_path, selected_board, selected_port, general_error,
                     output, used_command >> ]_vars

\* A failed Rescan in a session with a file, a port, a general error and a
\* command rendering: all of them are still there.
C6_Witness ==
  /\ intent = "Rescan"
  /\ ~scanned[1].ok
  /\ file_path # None
  /\ selected_port # None
  /\ general_error # None
  /\ used_command # None

\* C7: in every reachable state the selected port, if present, is a member
\* of the last-scanned port list.
C7_SelectedPortListed ==
  selected_port # None => Listed(selected_port[1], available_ports)

\* C8: the argument vector is -c programmer -p part -P port -D -U
\* flash:w:file, then -e as the last argument when the profile erases before
\* write and no -e at all when it does not; for the Arduino Uno, port
\* /dev/ttyACM0 and file /tmp/firmware.elf it is the vector of the spec.
C8_ArgumentVector ==
  \A i \in 1..Len(spawned) :
    LET c == spawned[i]
        fixed == << "-c", c.spec.programmer, "-p", c.spec.partno,
                    "-P", c.port.port_name, "-D", "-U",
                    "flash:w:" \o c.path >>
    IN /\ SubSeq(c.argv, 1, 9) = fixed
       /\ c.spec.do_chip_erase =>
            Len(c.argv) = 10 /\ c.argv[Len(c.argv)] = "-e"
       /\ ~c.spec.do_chip_erase =>
            Len(c.argv) = 9 /\ \A k \in 1..Len(c.argv) : c.argv[k] # "-e"
       /\ ( /\ c.spec = spec("ArduinoUno")
            /\ c.port.port_name = "/dev/ttyACM0"
            /\ c.path = "/tmp/firmware.elf" )
            => c.argv = << "-c", "arduino", "-p", "atmega328p", "-P",
                           "/dev/ttyACM0", "-D", "-U",
                           "flash:w:/tmp/firmware.elf", "-e" >>

\* A command built for a profile that does not erase before write.
C8_Witness ==
  /\ Len(spawned) = 1
  /\ ~spawned[1].spec.do_chip_erase
  /\ spawned[1].spec.programmer = "stk500v1"
  /\ Len(spawned[1].argv) = 9

\* The stored outcome is the successful-execution variant.
IsExecuted(out) == SubSeq(out, 1, 13) = "Flashing: Ok("

\* The stored outcome is the launch-failure variant.
IsLaunchFailure(out) == SubSeq(out, 1, 14) = "Flashing: Err("

\* C9: whenever the tool was started by a Flash, the outcome recorded is the
\* successful-execution variant whatever the exit code; the launch-failure
\* variant is recorded only when the process could not be started.
C9_ExitCodeIsNotLaunchFailure ==
  intent = "Flash" /\ Len(spawned) = 1 =>
    /\ output # None
    /\ spawned[1].result.launched =>
         IsExecuted(output[1]) /\ ~IsLaunchFailure(output[1])
    /\ IsLaunchFailure(output[1]) => ~spawned[1].result.launched

\* A Flash whose tool ran and exited with a non-zero code.
C9_Witness ==
  /\ intent = "Flash"
  /\ Len(spawned) = 1
  /\ spawned[1].result.launched
  /\ spawned[1].result.code # 0
  /\ output # None
  /\ IsExecuted(output[1])

\* C10: on a successful launch the stored outcome carries the exit code, the
\* stdout and the stderr: a run that differs in exit code or in stderr would
\* have stored a different outcome.
C10_OutcomeCarriesStatusAndStderr ==
  intent = "Flash" /\ Len(spawned) = 1 /\ spawned[1].result.launched =>
    \A r \in ExecResults :
      r.launched /\ ( r.code # spawned[1].result.code
                      \/ r.stderr # spawned[1].result.stderr )
        => Some(flashOutput(r)) # output

\* C11 as stated: every port enumeration is the effect of a Rescan intent.
C11_OnlyRescanScans ==
  scanned # << >> => intent = "Rescan"

\* C11 amended: apart from the one enumeration at start-up, every port
\* enumeration and every change to the port list or the discovery error is
\* the effect of a Rescan intent; SelectFile, SelectBoard, SelectPort and
\* Flash leave the port list and the discovery error unchanged.
C11_OnlyStartAndRescanScan ==
  /\ [][ /\ ( \/ scanned' # << >>
              \/ available_ports' # available_ports
              \/ port_scan_error' # port_scan_error ) => intent' = "Rescan"
         /\ intent' \in { "SelectFile", "SelectBoard", "SelectPort", "Flash" }
              => UNCHANGED << available_ports, port_scan_error >> ]_vars
  /\ [](scanned # << >> => intent \in { "Start", "Rescan" })

\* A Flash handled while the OS reports other ports than the list holds: no
\* enumeration was made and the list is not the OS's.
C11_Witness ==
  /\ intent = "Flash"
  /\ scanned = << >>
  /\ os_scan.ok
  /\ os_scan.ports # available_ports
  /\ port_scan_error = None

\* C12: two consecutive Rescan intents with the OS port state unchanged
\* between them leave the same port list and the same discovery error after
\* the second as after the first.
C12_RescanIdempotent ==
  [][ intent = "Rescan" /\ intent' = "Rescan" /\ scanned' = scanned =>
        /\ available_ports' = available_ports
        /\ port_scan_error' = port_scan_error ]_vars

\* The state after a Rescan of a non-empty OS list that is still the OS's
\* list: a second Rescan from here reads the same OS state.
C12_Witness ==
  /\ intent = "Rescan"
  /\ scanned = << os_scan >>
  /\ os_scan.ok
  /\ Len(available_ports) = NumPorts
  /\ ENABLED (Rescan /\ scanned' = scanned)

\* C13: in every reachable state the selected board is a known board
\* identifier, and resolving it yields a profile whose programmer name and
\* part number are both non-empty.
C13_BoardLookupTotal ==
  /\ selected_board \in ArduinoBoard
  /\ Len(spec(selected_board).programmer) > 0
  /\ Len(spec(selected_board).partno) > 0
  /\ \A b \in ArduinoBoard :
       Len(spec(b).programmer) > 0 /\ Len(spec(b).partno) > 0

\* A board chosen in the combo box.
C13_Witness ==
  /\ intent = "SelectBoard"
  /\ selected_board = "ArduinoUno"
  /\ spec(selected_board).partno = "atmega328p"

\* C14: a port selected before a Rescan stays selected after it even when the
\* new port list does not contain it, and a following Flash with a file
\* selected builds and executes the command with that port's name without
\* checking membership in the current list.
C14_StalePortKeptAndUsed ==
  [][ /\ intent' = "Rescan" => selected_port' = selected_port
      /\ intent' = "Flash" /\ file_path # None /\ selected_port # None =>
           /\ Len(spawned') = 1
           /\ spawned'[1].port = selected_port[1]
           /\ spawned'[1].argv[5] = "-P"
           /\ spawned'[1].argv[6] = selected_port[1].port_name ]_vars

\* A Flash that ran the tool on a port the current list does not hold.
C14_Witness ==
  /\ intent = "Flash"
  /\ Len(spawned) = 1
  /\ selected_port # None
  /\ ~Listed(selected_port[1], available_ports)
  /\ spawned[1].argv[6] = selected_port[1].port_name

\* The rendering of the command for the Arduino Uno, a port and a file.
UnoRendering(port, path) ==
  "CMD: \"avrdude\" \"-c\" \"arduino\" \"-p\" \"atmega328p\" \"-P\" \""
    \o port.port_name \o "\" \"-D\" \"-U\" \"flash:w:" \o path \o "\" \"-e\""

\* C15: whenever a Flash runs a command, the stored command rendering is
\* derived from the file, port and board selected at the moment of that
\* Flash; a rendering stored by an earlier Flash for another selection is
\* replaced.
C15_CommandBuiltFresh ==
  [][ intent' = "Flash" /\ Len(spawned') >= 1 =>
        /\ selected_board = "ArduinoUno"
        /\ used_command' = Some(UnoRendering(selected_port[1], file_path[1]))
        /\ ( used_command # None
             /\ used_command # Some(UnoRendering(selected_port[1], file_path[1])) )
             => used_command' # used_command ]_vars

\* A Flash that ran a command for another selection than the one whose
\* rendering an earlier Flash could have stored first: the second file on
\* the second port, in a session with an earlier Flash attempt.
C15_Witness ==
  /\ intent = "Flash"
  /\ Len(spawned) = 1
  /\ general_error # None
  /\ file_path = Some(FileTable[2])
  /\ selected_port = Some(PortTable[2])
  /\ used_command = Some(UnoRendering(PortTable[2], FileTable[2]))

\* C16: when the tool cannot be started during a Flash with both file and
\* port selected, that Flash attempts the launch exactly once, stores the
\* launch-failure outcome and the command rendering, and the session stays
\* able to accept every further intent (SelectPort, as always, for the ports
\* the list holds).
C16_LaunchFailureNoRetry ==
  intent = "Flash" /\ spawned # << >> /\ ~spawned[1].result.launched =>
    /\ Len(spawned) = 1
    /\ output = Some("Flashing: Err(" \o spawned[1].result.cause \o ")")
    /\ used_command = Some(usedCommand(spawned[1].argv))
    /\ ENABLED SelectFile
    /\ ENABLED SelectBoard
    /\ (available_ports # << >> => ENABLED SelectPort)
    /\ ENABLED Rescan
    /\ ENABLED Flash

\* A Flash whose tool could not be started.
C16_Witness ==
  /\ intent = "Flash"
  /\ Len(spawned) = 1
  /\ ~spawned[1].result.launched
  /\ output # None
  /\ IsLaunchFailure(output[1])
  /\ used_command # None

\* C17: in every reachable state, the state right after start-up included, a
\* present discovery error implies an empty port list.
C17_ErrorImpliesEmptyList ==
  port_scan_error # None => available_ports = << >>

\* The state right after a start-up whose port enumeration failed.
C17_Witness ==
  /\ intent = "Start"
  /\ ~scanned[1].ok
  /\ port_scan_error # None
  /\ available_ports = << >>

\* C18: in every reachable state the command rendering and the outcome
\* rendering are both absent or both present; they are only ever written
\* together, by a Flash handled with both file and port selected, and no
\* intent resets either of them to absent.
C18_CommandAndOutcomeTogether ==
  /\ []((used_command = None) <=> (output = None))
  /\ [][ (used_command' # used_command \/ output' # output) =>
           /\ intent' = "Flash"
           /\ file_path # None
           /\ selected_port # None
           /\ used_command' # None
           /\ output' # None ]_vars
  /\ [][ /\ used_command # None => used_command' # None
         /\ output # None => output' # None ]_vars

\* The renderings of a Flash whose launch failed are still both there after
\* the file selection was cancelled.
C18_Witness ==
  /\ intent = "SelectFile"
  /\ file_path = None
  /\ used_command # None
  /\ output # None
  /\ IsLaunchFailure(output[1])

\* C19: choosing a file assigns the file dialog's result to the selected file
\* unconditionally, so a cancelled dialog makes the selected file absent
\* again, and a Flash that follows reports the "no file selected" error.
C19_CancelledDialogClearsFile ==
  [][ /\ intent' = "SelectFile" =>
           Len(picked') = 1 /\ file_path' = picked'[1]
      /\ intent = "SelectFile" /\ picked = << None >> /\ intent' = "Flash" =>
           /\ file_path = None
           /\ general_error' = Some(NoFileSelected)
           /\ spawned' = << >> ]_vars

\* A Flash refused for the missing file in a session where a file had been
\* selected before (a command was run for it).
C19_Witness ==
  /\ intent = "Flash"
  /\ file_path = None
  /\ general_error = Some(NoFileSelected)
  /\ spawned = << >>
  /\ used_command # None
  /\ selected_port # None

\* C20: immediately after any SelectPort the selected port is an element of
\* the port list held at that moment, which that step neither scanned nor
\* changed, and no intent ever sets a selected port back to absent.
C20_SelectPortPicksListed ==
  [][ /\ intent' = "SelectPort" =>
           /\ selected_port' # None
           /\ Listed(selected_port'[1], available_ports')
           /\ available_ports' = available_ports
           /\ scanned' = << >>
      /\ selected_port # None => selected_port' # None ]_vars

\* The second port of a list of two was picked.
C20_Witness ==
  /\ intent = "SelectPort"
  /\ Len(available_ports) = 2
  /\ selected_port = Some(available_ports[2])

====
